---- MODULE Spec2Model ----
(***************************************************************************)
(* Workday / clock period / clock session state machine of the mobile      *)
(* client (WorkdayProvider), the location service it drives, and the       *)
(* backend rows it reads and writes.                                       *)
(*                                                                         *)
(* Every async function is a task that advances one step per suspension    *)
(* point (await).  A task reads React state through the closure of the     *)
(* render it was invoked in, so it carries a snapshot of that state; the   *)
(* setters write the provider's state, which the running task never sees.  *)
(* The background location callback is a process of its own that shares    *)
(* only the durable store and the backend with the tasks.                  *)
(***************************************************************************)
EXTENDS Integers, Sequences, FiniteSets

\* ------------------------------------------------------------------ bounds
MaxWorkdays == 2
MaxPeriods == 2
MaxSessions == 2
MaxInserts == 2
MaxEntries == 1
MaxCalls == 3
MaxMembers == 2

\* null of `string | null`; ids are positive
Null == 0

WorkdayIds == 1..MaxWorkdays
PeriodIds == 1..MaxPeriods
SessionIds == 1..MaxSessions

\* UI task slots; `slots` holds the ones a specification lets run
Slots == {1, 2}

VARIABLES
  \* backend rows of the signed-in employee
  srvWorkday,      \* id of the open workday, or Null
  srvPeriod,       \* open clock period [id, wd], or NoPeriod
  srvEnded,        \* clock sessions whose end_time is set
  srvEntries,      \* time_entries inserts so far, per clock session id
  nextWd, nextCp, nextCs,   \* next unused ids
  \* WorkdayProvider state (useState)
  workdayId, clockPeriodId, clockSessionId,
  isGpsTracking, hasLocationPermission,
  \* durable key-value store (AsyncStorage)
  stWorkday, stPeriod, stSession,
  \* platform
  registered,      \* background location task is registered
  perm,            \* foreground location permission
  \* running async functions
  slots, tasks,
  \* time history screen
  hist,
  \* EmployeeProvider and the rows it looks up
  ident,
  \* calls of the location service, as far as they are recorded
  svc,
  \* what the backend keeps of a job: the references and notes of each clock
  \* session and of the time entry made from it
  refs,
  \* background location callback
  loc,
  \* HomeScreen timer start
  startTime

srv == <<srvWorkday, srvPeriod, srvEnded, srvEntries, nextWd, nextCp, nextCs>>
mem == <<workdayId, clockPeriodId, clockSessionId, isGpsTracking, hasLocationPermission>>
store == <<stWorkday, stPeriod, stSession>>
platform == <<registered, perm>>
vars == <<srv, mem, store, platform, slots, tasks, loc, startTime, hist, ident, svc, refs>>

NoPeriod == [id |-> Null, wd |-> Null]

\* sessions the backend has created, and the ones still open
SrvSessions == 1..(nextCs - 1)
SrvOpenSessions == SrvSessions \ srvEnded

\* --------------------------------------------------- what a job refers to
\* startJob takes optional notes, property, billing category and unit; a
\* field left out is `undefined`, a text field left empty is ''.
Undefined == -1
EmptyString == -2

\* some text, some id
Given == 1

\* params of startJob; the arguments of start_clock_session, the columns of a
\* clock_sessions row and those of a time_entries row have the same four fields
NoParams ==
  [notes |-> Undefined, property |-> Undefined, billing |-> Undefined,
   unit |-> Undefined]

NotesOnly == [NoParams EXCEPT !.notes = Given]

OnlyNotes(params) ==
  /\ params.notes = Given
  /\ params.property = Undefined /\ params.billing = Undefined
  /\ params.unit = Undefined

\* the calls the screens make: nothing chosen, notes only, property and
\* billing category with the notes left empty, everything given
StartJobParams ==
  {NoParams, NotesOnly,
   [NoParams EXCEPT !.notes = EmptyString, !.property = Given, !.billing = Given],
   [notes |-> Given, property |-> Given, billing |-> Given, unit |-> Given]}

\* mutant: the value is passed on as it is
OrNullKept(v) == v

\* v || null
OrNull(v) == IF v \in {Undefined, EmptyString, Null} THEN Null ELSE v

\* the arguments startJob passes to start_clock_session
SessionArgs(params) ==
  [notes |-> OrNull(params.notes), property |-> OrNull(params.property),
   billing |-> OrNull(params.billing), unit |-> OrNull(params.unit)]

\* the values endJob's insert takes from the clock_sessions row it read
TimeEntryOf(session) ==
  [notes |-> session.notes, property |-> session.property,
   billing |-> session.billing, unit |-> session.unit]

\* per clock session id: the params startJob was called with, the row the
\* backend keeps, and the time entry inserted for it
NoRefs ==
  [params |-> [s \in SessionIds |-> NoParams],
   sessions |-> [s \in SessionIds |-> NoParams],
   entries |-> [s \in SessionIds |-> NoParams]]

\* ------------------------------------------------------------------ tasks
IdleTask ==
  [op |-> "none", pc |-> "idle",
   wd |-> Null, cp |-> Null, cs |-> Null, gps |-> FALSE, perm |-> FALSE,
   awd |-> Null, ssid |-> Null, rwd |-> Null, rcp |-> Null, rcs |-> Null,
   calls |-> <<>>, readsOk |-> TRUE, trackFailed |-> FALSE, relaunch |-> FALSE,
   insertFailed |-> FALSE, stopFailed |-> FALSE, callFailed |-> FALSE,
   params |-> NoParams, sent |-> NoParams, session |-> NoParams,
   entry |-> NoParams]

\* a task started in the current render: its closure holds the state as rendered
NewTask(op, pc) ==
  [IdleTask EXCEPT !.op = op, !.pc = pc,
                   !.wd = workdayId, !.cp = clockPeriodId, !.cs = clockSessionId,
                   !.gps = isGpsTracking, !.perm = hasLocationPermission]

Call(rpc, arg) == [rpc |-> rpc, arg |-> arg]

Logged(t, rpc, arg) == Append(tasks[t].calls, Call(rpc, arg))

Idle(t) == t \in slots /\ tasks[t].pc = "idle"
At(t, pc) == t \in slots /\ tasks[t].pc = pc

\* the promise of the outermost async function rejects
Reject(t, calls) ==
  tasks' = [tasks EXCEPT ![t].pc = "rejected", ![t].calls = calls,
                         ![t].callFailed = TRUE]

\* ------------------------------------------------------ EmployeeProvider
\* The provider is mounted for a signed-in account and looks up the employee
\* of that account once, in its mount effect.  `ident` holds the rows of the
\* backend that the lookup reads, the provider's state, and the lookup.
MemberIds == 1..MaxMembers

\* the employee linked to membership m, and the employee of m's organization
\* that carries the account's email
LinkedEmployee(m) == m
EmailEmployee(m) == MaxMembers + m

NoLookup == [pc |-> "none", member |-> Null, emp |-> Null, calls |-> <<>>]

NoIdentity ==
  [members |-> {}, oldest |-> Null, linked |-> {}, byEmail |-> {},
   unlinked |-> {}, backfilled |-> {}, userEmail |-> FALSE,
   mounted |-> FALSE, employee |-> Null, loading |-> TRUE, error |-> FALSE,
   f |-> NoLookup]

\* the render of EmployeeProvider
Rendered ==
  IF ~ident.mounted THEN "nothing"
  ELSE IF ident.loading THEN "loading"
  ELSE IF ident.error \/ ident.employee = Null THEN "no employee"
  ELSE "WorkdayProvider"

\* organization_member rows of the account, ordered by created_at ascending
RECURSIVE InSomeOrder(_)
InSomeOrder(ms) ==
  IF ms = {} THEN <<>>
  ELSE LET m == CHOOSE x \in ms : TRUE IN <<m>> \o InSomeOrder(ms \ {m})

MembersOldestFirst ==
  IF ident.members = {} THEN <<>>
  ELSE <<ident.oldest>> \o InSomeOrder(ident.members \ {ident.oldest})

\* mutant: the last membership is taken
TakenLast(orgMembers) == orgMembers[Len(orgMembers)]

\* orgMembers[0]
Taken(orgMembers) == orgMembers[1]

Asked(rpc, arg, found) == [rpc |-> rpc, arg |-> arg, found |-> found]

\* mutant: a failure leaves error unset
FailedQuietly(id) ==
  [id EXCEPT !.employee = Null, !.error = FALSE, !.loading = FALSE, !.f.pc = "done"]

\* no employee: setEmployee(null), setError(true), setLoading(false)
Failed(id) ==
  [id EXCEPT !.employee = Null, !.error = TRUE, !.loading = FALSE, !.f.pc = "done"]

\* setEmployee(emp), setError(false), setLoading(false)
Found(id, emp) ==
  [id EXCEPT !.employee = emp, !.error = FALSE, !.loading = FALSE, !.f.pc = "done"]

ivars == <<srv, mem, store, platform, slots, tasks, loc, startTime, hist, svc, refs>>

\* step 1: the memberships of the account
FeMembers ==
  /\ ident.mounted /\ ident.f.pc = "fe_members"
  /\ \E ok \in BOOLEAN :
       LET orgMembers == IF ok THEN MembersOldestFirst ELSE <<>>
           asked == Append(ident.f.calls, Asked("organization_member", Null, orgMembers # <<>>))
       IN ident' = IF orgMembers = <<>>
                     THEN Failed([ident EXCEPT !.f.calls = asked])
                     ELSE [ident EXCEPT !.f.calls = asked, !.f.pc = "fe_by_member",
                                        !.f.member = Taken(orgMembers)]
  /\ UNCHANGED ivars

\* employee rows whose organization_member_id is m
EmployeesOf(m) ==
  (IF m \in ident.linked THEN {LinkedEmployee(m)} ELSE {})
    \cup (IF m \in ident.backfilled THEN {EmailEmployee(m)} ELSE {})

\* step 2: the employee of the membership, .single(): one row, or an error;
\* step 3 follows when there is none and the account has an email
FeByMember ==
  /\ ident.mounted /\ ident.f.pc = "fe_by_member"
  /\ \E ok \in BOOLEAN :
       LET m == ident.f.member
           rows == EmployeesOf(m)
           found == ok /\ Cardinality(rows) = 1
           asked == Append(ident.f.calls, Asked("employee_by_member", m, found))
       IN ident' = IF found
                     THEN Found([ident EXCEPT !.f.calls = asked],
                                CHOOSE e \in rows : TRUE)
                   ELSE IF ident.userEmail
                     THEN [ident EXCEPT !.f.calls = asked, !.f.pc = "fe_by_email"]
                   ELSE Failed([ident EXCEPT !.f.calls = asked])
  /\ UNCHANGED ivars

\* step 3: the employee of the organization with the account's email; one
\* that has no membership id yet is linked next
FeByEmail ==
  /\ ident.mounted /\ ident.f.pc = "fe_by_email"
  /\ \E ok \in BOOLEAN :
       LET m == ident.f.member
           found == ok /\ m \in ident.byEmail
           asked == Append(ident.f.calls, Asked("employee_by_email", m, found))
       IN ident' = IF ~found THEN Failed([ident EXCEPT !.f.calls = asked])
                   ELSE IF m \in ident.unlinked
                     THEN [ident EXCEPT !.f.calls = asked, !.f.pc = "fe_backfill",
                                        !.f.emp = EmailEmployee(m)]
                   ELSE Found([ident EXCEPT !.f.calls = asked], EmailEmployee(m))
  /\ UNCHANGED ivars

\* the update of organization_member_id; its outcome is not looked at
FeBackfill ==
  /\ ident.mounted /\ ident.f.pc = "fe_backfill"
  /\ \E ok \in BOOLEAN :
       LET m == ident.f.member
           asked == Append(ident.f.calls, Asked("update_employee", ident.f.emp, ok))
       IN ident' = Found([ident EXCEPT !.f.calls = asked,
                                        !.unlinked = IF ok THEN @ \ {m} ELSE @,
                                        !.backfilled = IF ok THEN @ \cup {m} ELSE @],
                         ident.f.emp)
  /\ UNCHANGED ivars

\* Sign Out, pressed while no function of the provider is running:
\* supabase.auth.signOut(), and with it the login screen in place of
\* EmployeeProvider and of the WorkdayProvider under it.  The state of both is
\* gone; the store, the backend and the registered task are not touched.
IdentSignOut ==
  /\ ident.mounted /\ Rendered # "loading"
  /\ \A t \in slots : tasks[t].pc = "idle"
  /\ ident' = [ident EXCEPT !.mounted = FALSE, !.employee = Null, !.loading = TRUE,
                             !.error = FALSE, !.f = NoLookup]
  /\ workdayId' = Null /\ clockPeriodId' = Null /\ clockSessionId' = Null
  /\ isGpsTracking' = FALSE /\ hasLocationPermission' = FALSE
  /\ slots' = {}
  /\ startTime' = FALSE
  /\ UNCHANGED <<srv, store, platform, tasks, loc, hist, svc, refs>>

\* EmployeeProvider renders WorkdayProvider, whose mount effect calls
\* refreshState
MountWorkdayProvider ==
  /\ Rendered = "WorkdayProvider"
  /\ slots = {}
  /\ slots' = {1}
  /\ tasks' = [tasks EXCEPT ![1] =
                 [IdleTask EXCEPT !.op = "refreshState", !.pc = "rs_wd",
                                  !.ssid = stSession]]
  /\ UNCHANGED <<srv, mem, store, platform, loc, startTime, hist, ident, svc, refs>>

\* the account signs in again: the provider mounts and its effect runs
IdentSignIn ==
  /\ ~ident.mounted
  /\ ident' = [ident EXCEPT !.mounted = TRUE, !.employee = Null, !.loading = TRUE,
                             !.error = FALSE,
                             !.f = [NoLookup EXCEPT !.pc = "fe_members"]]
  /\ UNCHANGED ivars

\* ---------------------------------------------------- time history screen
\* TimeHistoryScreen keeps a list of the user's time entries, fetched from
\* the time_entries table, and edits and deletes rows of that table.  `hist`
\* holds the table rows, the list, and the handler that is running.
EntryIds == 1..MaxEntries

MsPerMinute == 60000

\* timestamps in ms after 10:00:00: 10:00:00 and 10:47:30
Times == {0, 2850000}

\* Math.floor((end - start) / 60000)
DurationMinutes(startMs, endMs) == (endMs - startMs) \div MsPerMinute

NoRow ==
  [state |-> "none", start |-> 0, end |-> 0, dur |-> 0,
   locked |-> FALSE, status |-> "draft"]

NoEntry ==
  [shown |-> FALSE, start |-> 0, end |-> 0,
   locked |-> FALSE, status |-> "draft", editable |-> FALSE]

\* mutant: only the locked flag is looked at
IsEditableLockedOnly(locked, status) == ~locked

\* is_editable as fetchTimeEntries computes it
IsEditable(locked, status) == ~locked /\ status # "invoiced"

\* the list entry fetchTimeEntries makes of a row
Fetched(row) ==
  IF row.state = "live"
    THEN [shown |-> TRUE, start |-> row.start, end |-> row.end,
          locked |-> row.locked, status |-> row.status,
          editable |-> IsEditable(row.locked, row.status)]
    ELSE NoEntry

NoUpdates == [start |-> Undefined, end |-> Undefined, dur |-> Undefined]

NoHandler ==
  [op |-> "none", pc |-> "idle", id |-> Null, db |-> NoUpdates,
   remote |-> 0, refused |-> FALSE, refetched |-> FALSE]

NoHistory ==
  [rows |-> [e \in EntryIds |-> NoRow], list |-> [e \in EntryIds |-> NoEntry],
   h |-> NoHandler]

wvars == <<srv, mem, store, platform, slots, tasks, loc, startTime, svc, refs, ident>>

\* endJob's insert: start_ts is the session's start, end_ts the end just
\* stamped, duration_minutes computed from the two; draft and unlocked
InsertEntry ==
  \E e \in EntryIds, st \in Times, en \in Times :
    /\ hist.rows[e].state = "none"
    /\ \A d \in EntryIds : d < e => hist.rows[d].state # "none"
    /\ st <= en
    /\ hist' = [hist EXCEPT !.rows[e] =
                  [state |-> "live", start |-> st, end |-> en,
                   dur |-> DurationMinutes(st, en),
                   locked |-> FALSE, status |-> "draft"]]
    /\ UNCHANGED wvars

\* the back office locks (approves) or invoices a draft entry
BackOffice ==
  \E e \in EntryIds, change \in {"lock", "invoice"} :
    /\ hist.rows[e].state = "live"
    /\ ~hist.rows[e].locked /\ hist.rows[e].status = "draft"
    /\ hist' = IF change = "lock"
                 THEN [hist EXCEPT !.rows[e].locked = TRUE]
                 ELSE [hist EXCEPT !.rows[e].status = "invoiced"]
    /\ UNCHANGED wvars

\* fetchTimeEntries on mount, on focus and on pull-to-refresh: the list is
\* replaced when the read succeeds and kept when it fails
FetchedList(ok) ==
  IF ok THEN [e \in EntryIds |-> Fetched(hist.rows[e])] ELSE hist.list

FetchTimeEntries ==
  /\ hist.h.pc = "idle"
  /\ \E ok \in BOOLEAN : hist' = [hist EXCEPT !.list = FetchedList(ok)]
  /\ UNCHANGED wvars

Handler(op, pc, id) == [NoHandler EXCEPT !.op = op, !.pc = pc, !.id = id]

\* the guard of the three handlers: the entry is in the list and not editable
Refused(id) == hist.list[id].shown /\ ~hist.list[id].editable

\* dbUpdates of handleUpdate: the changed times, and the duration of the
\* changed times completed with the times of the list entry
DbUpdates(entry, st, en) ==
  [start |-> st, end |-> en,
   dur |-> IF st # Undefined \/ en # Undefined
             THEN DurationMinutes(IF st # Undefined THEN st ELSE entry.start,
                                  IF en # Undefined THEN en ELSE entry.end)
             ELSE Undefined]

Merge(old, new) == IF new # Undefined THEN new ELSE old

\* handleUpdate up to its remote call: the guard, the optimistic change of
\* the list, dbUpdates
HandleUpdate ==
  \E id \in EntryIds, st \in Times \cup {Undefined}, en \in Times \cup {Undefined} :
    /\ hist.h.pc = "idle"
    /\ hist.list[id].shown
    /\ hist' =
         IF Refused(id)
           THEN [hist EXCEPT !.h = [Handler("handleUpdate", "rejected", id)
                                      EXCEPT !.refused = TRUE]]
           ELSE [hist EXCEPT
                   !.list[id].start = Merge(@, st),
                   !.list[id].end = Merge(@, en),
                   !.h = [Handler("handleUpdate", "hu_remote", id)
                            EXCEPT !.db = DbUpdates(hist.list[id], st, en)]]
    /\ UNCHANGED wvars

\* the update of the row; an update of a row that is gone changes nothing
Updated(row, db) ==
  IF row.state = "live"
    THEN [row EXCEPT !.start = Merge(@, db.start), !.end = Merge(@, db.end),
                     !.dur = Merge(@, db.dur)]
    ELSE row

HuRemote ==
  /\ hist.h.pc = "hu_remote"
  /\ \E ok \in BOOLEAN :
       hist' = IF ok
                 THEN [hist EXCEPT !.rows[hist.h.id] = Updated(@, hist.h.db),
                                   !.h.remote = @ + 1, !.h.pc = "resolved"]
                 ELSE [hist EXCEPT !.h.remote = @ + 1, !.h.pc = "refetch"]
  /\ UNCHANGED wvars

\* handleAnimatedDelete up to its remote call: the guard, the optimistic
\* removal from the list
HandleAnimatedDelete ==
  \E id \in EntryIds :
    /\ hist.h.pc = "idle"
    /\ hist.list[id].shown
    /\ hist' =
         IF Refused(id)
           THEN [hist EXCEPT !.h = [Handler("handleAnimatedDelete", "resolved", id)
                                      EXCEPT !.refused = TRUE]]
           ELSE [hist EXCEPT !.list[id] = NoEntry,
                             !.h = Handler("handleAnimatedDelete", "ad_remote", id)]
    /\ UNCHANGED wvars

Deleted(row) == IF row.state = "live" THEN [NoRow EXCEPT !.state = "gone"] ELSE row

AdRemote ==
  /\ hist.h.pc = "ad_remote"
  /\ \E ok \in BOOLEAN :
       hist' = IF ok
                 THEN [hist EXCEPT !.rows[hist.h.id] = Deleted(@),
                                   !.h.remote = @ + 1, !.h.pc = "resolved"]
                 ELSE [hist EXCEPT !.h.remote = @ + 1, !.h.pc = "refetch"]
  /\ UNCHANGED wvars

\* handleDelete: the guard, then the confirmation dialog
HandleDelete ==
  \E id \in EntryIds :
    /\ hist.h.pc = "idle"
    /\ hist.list[id].shown
    /\ hist' =
         IF Refused(id)
           THEN [hist EXCEPT !.h = [Handler("handleDelete", "resolved", id)
                                      EXCEPT !.refused = TRUE]]
           ELSE [hist EXCEPT !.h = Handler("handleDelete", "hd_confirm", id)]
    /\ UNCHANGED wvars

HdConfirm ==
  /\ hist.h.pc = "hd_confirm"
  /\ \E press \in {"Cancel", "Delete"} :
       hist' = [hist EXCEPT !.h.pc = IF press = "Delete" THEN "hd_remote"
                                     ELSE "resolved"]
  /\ UNCHANGED wvars

\* the delete; the list is fetched again when it succeeds
HdRemote ==
  /\ hist.h.pc = "hd_remote"
  /\ \E ok \in BOOLEAN :
       hist' = IF ok
                 THEN [hist EXCEPT !.rows[hist.h.id] = Deleted(@),
                                   !.h.remote = @ + 1, !.h.pc = "refetch"]
                 ELSE [hist EXCEPT !.h.remote = @ + 1, !.h.pc = "resolved"]
  /\ UNCHANGED wvars

\* how a handler ends after its fetchTimeEntries: handleUpdate re-throws
AfterRefetch(op) == IF op = "handleUpdate" THEN "rejected" ELSE "resolved"

\* mutant: the handler's fetch leaves the list as the handler made it
RefetchedListKept(ok) == hist.list

\* the list after the fetchTimeEntries a handler awaits
RefetchedList(ok) == FetchedList(ok)

\* fetchTimeEntries awaited by a handler
Refetch ==
  /\ hist.h.pc = "refetch"
  /\ \E ok \in BOOLEAN :
       hist' = [hist EXCEPT !.list = RefetchedList(ok),
                            !.h.refetched = ok,
                            !.h.pc = AfterRefetch(hist.h.op)]
  /\ UNCHANGED wvars

\* the handler's promise settles
HistSettle ==
  /\ hist.h.pc \in {"resolved", "rejected"}
  /\ hist' = [hist EXCEPT !.h = NoHandler]
  /\ UNCHANGED wvars

\* ------------------------------------------------------------------ init
\* A fresh install: nothing stored, nothing on the backend, the provider
\* mounts and its effect starts refreshState.
Init ==
  /\ srvWorkday = Null /\ srvPeriod = NoPeriod
  /\ srvEnded = {} /\ srvEntries = [s \in SessionIds |-> 0]
  /\ nextWd = 1 /\ nextCp = 1 /\ nextCs = 1
  /\ workdayId = Null /\ clockPeriodId = Null /\ clockSessionId = Null
  /\ isGpsTracking = FALSE /\ hasLocationPermission = FALSE
  /\ stWorkday = Null /\ stPeriod = Null /\ stSession = Null
  /\ registered = FALSE
  /\ perm \in {"undetermined", "granted"}
  /\ slots = {1}
  /\ tasks = [t \in Slots |-> IF t = 1
                THEN [IdleTask EXCEPT !.op = "refreshState", !.pc = "rs_wd"]
                ELSE IdleTask]
  /\ loc = [pc |-> "idle", wd |-> Null, cs |-> Null]
  /\ startTime = FALSE
  /\ hist = NoHistory
  /\ svc = <<>>
  /\ refs = NoRefs
  /\ ident = NoIdentity

\* ------------------------------------------------------------- HomeScreen
\* The effect that keeps the timer's start time in step with
\* isClockSessionActive; React runs it with the render that follows a change
\* of clockSessionId, so it is part of every step that sets the id.
SyncStartTime(isClockSessionActive, st) ==
  IF isClockSessionActive /\ ~st THEN TRUE
  ELSE IF ~isClockSessionActive /\ st THEN FALSE
  ELSE st

\* ------------------------------------------------------------ the backend
\* The stored procedures are not part of the client; they are modelled from
\* their description: clock_in opens or reopens the workday and a clock period
\* in it, clock_out closes the open period, start_clock_session creates an
\* open session, end_workday closes the workday and everything open in it.
SrvClockInWorkday == IF srvWorkday # Null THEN srvWorkday ELSE nextWd
SrvClockInPeriod == IF srvPeriod.id # Null THEN srvPeriod.id ELSE nextCp
SrvCanClockIn == SrvClockInWorkday <= MaxWorkdays /\ SrvClockInPeriod <= MaxPeriods

SrvClockIn ==
  /\ srvWorkday' = SrvClockInWorkday
  /\ srvPeriod' = [id |-> SrvClockInPeriod, wd |-> SrvClockInWorkday]
  /\ nextWd' = IF srvWorkday # Null THEN nextWd ELSE nextWd + 1
  /\ nextCp' = IF srvPeriod.id # Null THEN nextCp ELSE nextCp + 1
  /\ UNCHANGED <<srvEnded, srvEntries, nextCs>>

SrvClockOut ==
  /\ srvPeriod' = NoPeriod
  /\ UNCHANGED <<srvWorkday, srvEnded, srvEntries, nextWd, nextCp, nextCs>>

SrvStartClockSession ==
  /\ nextCs' = nextCs + 1
  /\ UNCHANGED <<srvWorkday, srvPeriod, srvEnded, srvEntries, nextWd, nextCp>>

SrvEndWorkday(wd) ==
  /\ IF srvWorkday = wd
       THEN srvWorkday' = Null /\ srvPeriod' = NoPeriod /\ srvEnded' = SrvSessions
       ELSE UNCHANGED <<srvWorkday, srvPeriod, srvEnded>>
  /\ UNCHANGED <<srvEntries, nextWd, nextCp, nextCs>>

\* ------------------------------------------------------ the durable store
\* mutant: a null id leaves the stored one in place
SetActiveClockSessionIdNoRemove(id) == IF id # Null THEN id ELSE stSession

\* what getActiveClockSessionId reads after setActiveClockSessionId(id):
\* setItem for an id, removeItem for null
SetActiveClockSessionId(id) == IF id # Null THEN id ELSE Null

\* ---------------------------------------------------------- refreshState
\* get_active_workday as refreshState reads it: an error counts as no row
ActiveWorkdayResult(ok) == IF ok THEN srvWorkday ELSE Null

\* get_active_clock_period as refreshState reads it
ActivePeriodResult(ok) == IF ok THEN srvPeriod ELSE NoPeriod

\* mutant: the row is found, its end_time is not looked at
SessionFound(ok, ssid) == ok /\ ssid \in SrvSessions

\* the clock_sessions row of the stored id is found and has no end_time
SessionStillOpen(ok, ssid) == ok /\ ssid \in SrvOpenSessions

CallRefreshState(t) ==
  /\ Idle(t)
  /\ tasks' = [tasks EXCEPT ![t] =
                 [IdleTask EXCEPT !.op = "refreshState", !.pc = "rs_wd",
                                  !.ssid = stSession]]
  /\ UNCHANGED <<srv, mem, store, platform, slots, hist, ident, svc, refs, loc, startTime>>

RsWorkday(t) ==
  /\ At(t, "rs_wd")
  /\ \E ok \in BOOLEAN :
       /\ workdayId' = ActiveWorkdayResult(ok)
       /\ stWorkday' = ActiveWorkdayResult(ok)
       /\ tasks' = [tasks EXCEPT ![t].pc = "rs_cp", ![t].readsOk = ok]
  /\ UNCHANGED <<srv, clockPeriodId, clockSessionId, isGpsTracking, hasLocationPermission,
                 stPeriod, stSession, platform, slots, hist, ident, svc, refs, loc, startTime>>

RsPeriod(t) ==
  /\ At(t, "rs_cp")
  /\ \E ok \in BOOLEAN :
       LET p == ActivePeriodResult(ok) IN
         /\ clockPeriodId' = p.id
         /\ stPeriod' = p.id
         /\ IF p.id # Null /\ p.wd # Null
              THEN workdayId' = p.wd /\ stWorkday' = p.wd
              ELSE UNCHANGED <<workdayId, stWorkday>>
         /\ tasks' = [tasks EXCEPT ![t].pc = "rs_cs", ![t].readsOk = @ /\ ok]
  /\ UNCHANGED <<srv, clockSessionId, isGpsTracking, hasLocationPermission,
                 stSession, platform, slots, hist, ident, svc, refs, loc, startTime>>

RsSession(t) ==
  /\ At(t, "rs_cs")
  /\ LET ssid == tasks[t].ssid IN
       IF ssid # Null
         THEN \E ok \in BOOLEAN :
                /\ IF SessionStillOpen(ok, ssid)
                     THEN clockSessionId' = ssid /\ UNCHANGED stSession
                     ELSE clockSessionId' = Null /\ stSession' = SetActiveClockSessionId(Null)
                /\ tasks' = [tasks EXCEPT ![t].pc = "rs_gps", ![t].readsOk = @ /\ ok]
         ELSE /\ UNCHANGED <<clockSessionId, stSession>>
              /\ tasks' = [tasks EXCEPT ![t].pc = "rs_gps"]
  /\ UNCHANGED <<srv, workdayId, clockPeriodId, isGpsTracking, hasLocationPermission,
                 stWorkday, stPeriod, platform, slots, hist, ident, svc, refs, loc>>
  /\ startTime' = SyncStartTime(clockSessionId' # Null, startTime)

\* isTrackingActive: the platform query, false when it throws
IsTrackingActive(ok) == ok /\ registered

RsTracking(t) ==
  /\ At(t, "rs_gps")
  /\ \E ok \in BOOLEAN : isGpsTracking' = IsTrackingActive(ok)
  /\ hasLocationPermission' = (perm = "granted")
  /\ tasks' = [tasks EXCEPT ![t].pc = "resolved"]
  /\ UNCHANGED <<srv, workdayId, clockPeriodId, clockSessionId, store, platform, slots, hist, ident, svc, refs,
                 loc, startTime>>

\* the caller's await returns (or throws): the task is over
Settle(t) ==
  /\ t \in slots
  /\ tasks[t].pc \in {"resolved", "rejected"}
  /\ tasks' = [tasks EXCEPT ![t] = IdleTask]
  /\ UNCHANGED <<srv, mem, store, platform, slots, hist, ident, svc, refs, loc, startTime>>

\* ---------------------------------------------------------------- clockIn
CallClockIn(t) ==
  /\ Idle(t)
  /\ tasks' = [tasks EXCEPT ![t] = NewTask("clockIn", "ci_call")]
  /\ UNCHANGED <<srv, mem, store, platform, slots, hist, ident, svc, refs, loc, startTime>>

\* the clock_in RPC runs on the backend; on an error (or no data) clockIn throws
CiCall(t) ==
  /\ At(t, "ci_call")
  /\ \E ok \in BOOLEAN :
       IF ok /\ SrvCanClockIn
         THEN /\ SrvClockIn
              /\ tasks' = [tasks EXCEPT ![t].pc = "ci_resp",
                                        ![t].rwd = SrvClockInWorkday,
                                        ![t].rcp = SrvClockInPeriod,
                                        ![t].calls = Logged(t, "clock_in", Null)]
         ELSE /\ Reject(t, Logged(t, "clock_in", Null))
              /\ UNCHANGED srv
  /\ UNCHANGED <<mem, store, platform, slots, hist, ident, svc, refs, loc, startTime>>

\* the response arrives: both ids are set in memory and written to the store
CiResp(t) ==
  /\ At(t, "ci_resp")
  /\ workdayId' = tasks[t].rwd
  /\ clockPeriodId' = tasks[t].rcp
  /\ stWorkday' = tasks[t].rwd
  /\ stPeriod' = tasks[t].rcp
  /\ tasks' = [tasks EXCEPT ![t].pc = "ci_perm"]
  /\ UNCHANGED <<srv, clockSessionId, isGpsTracking, hasLocationPermission, stSession,
                 platform, slots, hist, ident, svc, refs, loc, startTime>>

\* requestLocationPermissions: the user answers the prompt only while the
\* permission is undetermined
RequestedPermission(answer) == IF perm = "undetermined" THEN answer ELSE perm

\* mutant: startJob goes on with the workday id of its closure
AfterClockInStale(tk) ==
  IF tk.op = "startJob"
    THEN [tk EXCEPT !.pc = "sj_call", !.awd = tk.wd]
    ELSE [tk EXCEPT !.pc = "resolved"]

\* where clockIn returns to: its own caller, or startJob
AfterClockIn(tk) ==
  IF tk.op = "startJob"
    THEN [tk EXCEPT !.pc = "sj_call", !.awd = tk.rwd]
    ELSE [tk EXCEPT !.pc = "resolved"]

\* mutant: clockIn starts tracking as soon as the permission is granted
ClockInTrackingOnGrant(granted) == registered \/ granted

\* lines 160-165: clockIn asks for the permission and leaves the tracker alone
ClockInTracking(granted) == registered

\* mutant: any answer counts as the foreground permission
ForegroundAlways(status) == TRUE

\* permissions.foreground of requestLocationPermissions
Foreground(status) == status = "granted"

CiPerm(t) ==
  /\ At(t, "ci_perm")
  /\ \E answer \in {"granted", "denied"} :
       /\ perm' = RequestedPermission(answer)
       /\ hasLocationPermission' = Foreground(RequestedPermission(answer))
       /\ registered' = ClockInTracking(RequestedPermission(answer) = "granted")
  /\ tasks' = [tasks EXCEPT ![t] = AfterClockIn(tasks[t])]
  /\ UNCHANGED <<srv, workdayId, clockPeriodId, clockSessionId, isGpsTracking, store,
                 slots, hist, ident, svc, refs, loc, startTime>>

\* --------------------------------------------------------------- tracking
\* startLocationTracking: nothing to do when the task is registered, refused
\* without foreground permission, else the platform registers it (or throws)
\* Both functions first ask the platform whether the task is registered
\* (hasStartedLocationUpdatesAsync) and then, if need be, call it to register
\* or unregister; either platform call may throw, and the catch of the function
\* swallows the error.
Failures == {"none", "query", "call"}

\* mutant: no look at whether the task is registered
StartLocationTrackingAgain(reg, p, fail) ==
  IF fail = "query" \/ p # "granted"
    THEN [registered |-> reg, result |-> FALSE, call |-> FALSE]
    ELSE [registered |-> reg \/ fail = "none", result |-> fail = "none", call |-> TRUE]

\* startLocationTracking: the tracker afterwards, the boolean returned, and
\* whether startLocationUpdatesAsync was called
StartLocationTracking(reg, p, fail) ==
  IF fail = "query" THEN [registered |-> reg, result |-> FALSE, call |-> FALSE]
  ELSE IF reg THEN [registered |-> TRUE, result |-> TRUE, call |-> FALSE]
  ELSE IF p # "granted" THEN [registered |-> FALSE, result |-> FALSE, call |-> FALSE]
  ELSE [registered |-> fail = "none", result |-> fail = "none", call |-> TRUE]

\* stopLocationTracking: the tracker afterwards and whether
\* stopLocationUpdatesAsync was called; nothing is returned, nothing thrown
StopLocationTracking(reg, fail) ==
  IF fail = "query" THEN [registered |-> reg, call |-> FALSE]
  ELSE IF reg THEN [registered |-> fail # "none", call |-> TRUE]
  ELSE [registered |-> FALSE, call |-> FALSE]

StartResult(fail) == StartLocationTracking(registered, perm, fail)

StopResult(fail) == StopLocationTracking(registered, fail).registered

\* --------------------------------------------------------------- startJob
\* line 223 / 229: clock in first, or recover a missing workday id, or go on
\* mutant: a missing workday id is not recovered
StartJobEntryNoRecovery ==
  IF clockPeriodId = Null THEN "ci_call" ELSE "sj_call"

StartJobEntry ==
  IF clockPeriodId = Null THEN "ci_call"
  ELSE IF workdayId = Null THEN "sj_fetch"
  ELSE "sj_call"

StartJobWith(t, params) ==
  /\ Idle(t)
  /\ tasks' = [tasks EXCEPT ![t] =
                 [NewTask("startJob", StartJobEntry) EXCEPT !.awd = workdayId,
                                                            !.params = params]]
  /\ UNCHANGED <<srv, mem, store, platform, slots, hist, ident, svc, refs, loc, startTime>>

\* startJob called with notes and nothing else
CallStartJob(t) == StartJobWith(t, NotesOnly)

\* clocked in but no workday id: take it from the backend's active clock period
SjFetch(t) ==
  /\ At(t, "sj_fetch")
  /\ \E ok \in BOOLEAN :
       LET p == ActivePeriodResult(ok) IN
         IF p.id # Null
           THEN /\ workdayId' = p.wd
                /\ stWorkday' = p.wd
                /\ tasks' = [tasks EXCEPT ![t].pc = "sj_call", ![t].awd = p.wd,
                               ![t].calls = Logged(t, "get_active_clock_period", Null)]
           ELSE /\ Reject(t, Logged(t, "get_active_clock_period", Null))
                /\ UNCHANGED <<workdayId, stWorkday>>
  /\ UNCHANGED <<srv, clockPeriodId, clockSessionId, isGpsTracking, hasLocationPermission,
                 stPeriod, stSession, platform, slots, hist, ident, svc, refs, loc, startTime>>

\* the start_clock_session RPC runs on the backend; startJob throws on an error
SjCall(t) ==
  /\ At(t, "sj_call")
  /\ \E ok \in BOOLEAN :
       IF ok /\ nextCs <= MaxSessions
         THEN /\ SrvStartClockSession
              /\ refs' = [refs EXCEPT
                            !.params[nextCs] = tasks[t].params,
                            !.sessions[nextCs] = SessionArgs(tasks[t].params)]
              /\ tasks' = [tasks EXCEPT ![t].pc = "sj_resp", ![t].rcs = nextCs,
                             ![t].sent = SessionArgs(tasks[t].params),
                             ![t].calls = Logged(t, "start_clock_session", tasks[t].awd)]
         ELSE /\ tasks' = [tasks EXCEPT ![t].pc = "rejected", ![t].callFailed = TRUE,
                             ![t].sent = SessionArgs(tasks[t].params),
                             ![t].calls = Logged(t, "start_clock_session", tasks[t].awd)]
              /\ UNCHANGED <<srv, refs>>
  /\ UNCHANGED <<mem, store, platform, slots, hist, ident, svc, loc, startTime>>

\* line 270, read through the closure of the render startJob was called in
ShouldStartTracking(tk) == ~tk.gps /\ tk.perm

\* the response arrives: the session id is set in memory and written to the store
SjResp(t) ==
  /\ At(t, "sj_resp")
  /\ clockSessionId' = tasks[t].rcs
  /\ stSession' = SetActiveClockSessionId(tasks[t].rcs)
  /\ tasks' = [tasks EXCEPT ![t].pc =
                 IF ShouldStartTracking(tasks[t]) THEN "sj_track" ELSE "resolved"]
  /\ UNCHANGED <<srv, workdayId, clockPeriodId, isGpsTracking, hasLocationPermission,
                 stWorkday, stPeriod, platform, slots, hist, ident, svc, refs, loc>>
  /\ startTime' = SyncStartTime(clockSessionId' # Null, startTime)

SjTrack(t) ==
  /\ At(t, "sj_track")
  /\ \E fail \in Failures :
       /\ registered' = StartResult(fail).registered
       /\ isGpsTracking' = StartResult(fail).result
       /\ tasks' = [tasks EXCEPT ![t].pc = "resolved",
                                 ![t].trackFailed = ~StartResult(fail).result]
  /\ UNCHANGED <<srv, workdayId, clockPeriodId, clockSessionId, hasLocationPermission,
                 store, perm, slots, hist, ident, svc, refs, loc, startTime>>

\* ----------------------------------------------------------------- endJob
\* mutant: the early return is gone
EndJobNeverNoop == FALSE

\* line 290: nothing to end
EndJobIsNoop == clockSessionId = Null

CallEndJob(t) ==
  /\ Idle(t)
  /\ tasks' = [tasks EXCEPT ![t] =
                 IF EndJobIsNoop
                   THEN [IdleTask EXCEPT !.op = "endJob", !.pc = "resolved"]
                   ELSE NewTask("endJob", "ej_fetch")]
  /\ UNCHANGED <<srv, mem, store, platform, slots, hist, ident, svc, refs, loc, startTime>>

\* 1. read the clock_sessions row; .single() fails when there is none
EjFetch(t) ==
  /\ At(t, "ej_fetch")
  /\ \E ok \in BOOLEAN :
       IF ok /\ tasks[t].cs \in SrvSessions
         THEN tasks' = [tasks EXCEPT ![t].pc = "ej_update",
                          ![t].session = refs.sessions[tasks[t].cs],
                          ![t].calls = Logged(t, "select_clock_session", tasks[t].cs)]
         ELSE Reject(t, Logged(t, "select_clock_session", tasks[t].cs))
  /\ UNCHANGED <<srv, mem, store, platform, slots, hist, ident, svc, refs, loc, startTime>>

\* 2. stamp end_time on the row
EjUpdate(t) ==
  /\ At(t, "ej_update")
  /\ \E ok \in BOOLEAN :
       IF ok
         THEN /\ srvEnded' = srvEnded \cup {tasks[t].cs}
              /\ tasks' = [tasks EXCEPT ![t].pc = "ej_insert",
                             ![t].calls = Logged(t, "update_clock_session", tasks[t].cs)]
         ELSE /\ Reject(t, Logged(t, "update_clock_session", tasks[t].cs))
              /\ UNCHANGED srvEnded
  /\ UNCHANGED <<srvWorkday, srvPeriod, srvEntries, nextWd, nextCp, nextCs,
                 mem, store, platform, slots, hist, ident, svc, refs, loc, startTime>>

\* mutant: an insert error is thrown like the errors of steps 1 and 2
AfterInsertThrows(inserted) == IF inserted THEN "ej_stop" ELSE "rejected"

\* lines 359-362: an insert error is logged and endJob goes on
AfterInsert(inserted) == "ej_stop"

\* 3. insert the time entry (a failure is only logged), then clear the session
\*    id in memory and in the store
EjInsert(t) ==
  /\ At(t, "ej_insert")
  /\ \E ok \in BOOLEAN :
       LET inserted == ok /\ srvEntries[tasks[t].cs] < MaxInserts IN
         /\ srvEntries' = IF inserted
                            THEN [srvEntries EXCEPT ![tasks[t].cs] = @ + 1]
                            ELSE srvEntries
         /\ refs' = IF inserted
                      THEN [refs EXCEPT !.entries[tasks[t].cs] =
                                          TimeEntryOf(tasks[t].session)]
                      ELSE refs
         /\ tasks' = [tasks EXCEPT ![t].pc = AfterInsert(inserted),
                         ![t].insertFailed = ~inserted,
                         ![t].entry = TimeEntryOf(tasks[t].session),
                         ![t].calls = Logged(t, "insert_time_entry", tasks[t].cs)]
  /\ clockSessionId' = Null
  /\ stSession' = SetActiveClockSessionId(Null)
  /\ UNCHANGED <<srvWorkday, srvPeriod, srvEnded, nextWd, nextCp, nextCs,
                 workdayId, clockPeriodId, isGpsTracking, hasLocationPermission,
                 stWorkday, stPeriod, platform, slots, hist, ident, svc, loc>>
  /\ startTime' = SyncStartTime(clockSessionId' # Null, startTime)

\* where endJob returns to: its own caller, clockOut or endWorkday
AfterEndJob(tk) ==
  IF tk.op = "clockOut" THEN [tk EXCEPT !.pc = "co_call"]
  ELSE IF tk.op = "endWorkday"
    THEN [tk EXCEPT !.pc = IF tk.cp # Null THEN "ew_co" ELSE "ew_call"]
  ELSE [tk EXCEPT !.pc = "resolved"]

\* 4. stop tracking
EjStop(t) ==
  /\ At(t, "ej_stop")
  /\ \E fail \in Failures :
       /\ registered' = StopResult(fail)
       /\ tasks' = [tasks EXCEPT ![t] =
                      AfterEndJob([tasks[t] EXCEPT !.stopFailed = StopResult(fail)])]
  /\ isGpsTracking' = FALSE
  /\ UNCHANGED <<srv, workdayId, clockPeriodId, clockSessionId, hasLocationPermission,
                 store, perm, slots, hist, ident, svc, refs, loc, startTime>>

\* --------------------------------------------------------------- clockOut
\* mutant: clockOut goes straight to the clock_out call
ClockOutEntrySkipsJob ==
  IF clockPeriodId = Null THEN "resolved"
  ELSE "co_call"

\* lines 176-186: nothing to do without a clock period; an active job is
\* ended first
ClockOutEntry ==
  IF clockPeriodId = Null THEN "resolved"
  ELSE IF clockSessionId # Null THEN "ej_fetch"
  ELSE "co_call"

CallClockOut(t) ==
  /\ Idle(t)
  /\ tasks' = [tasks EXCEPT ![t] = NewTask("clockOut", ClockOutEntry)]
  /\ UNCHANGED <<srv, mem, store, platform, slots, hist, ident, svc, refs, loc, startTime>>

CoCall(t) ==
  /\ At(t, "co_call")
  /\ \E ok \in BOOLEAN :
       IF ok
         THEN /\ SrvClockOut
              /\ tasks' = [tasks EXCEPT ![t].pc = "co_stop",
                                        ![t].calls = Logged(t, "clock_out", Null)]
         ELSE /\ Reject(t, Logged(t, "clock_out", Null))
              /\ UNCHANGED srv
  /\ UNCHANGED <<mem, store, platform, slots, hist, ident, svc, refs, loc, startTime>>

CoStop(t) ==
  /\ At(t, "co_stop")
  /\ \E fail \in Failures :
       /\ registered' = StopResult(fail)
       /\ tasks' = [tasks EXCEPT ![t].pc = "co_clear", ![t].stopFailed = StopResult(fail)]
  /\ UNCHANGED <<srv, mem, store, perm, slots, hist, ident, svc, refs, loc, startTime>>

\* lines 194-201; the two store writes are taken in one step
CoClear(t) ==
  /\ At(t, "co_clear")
  /\ isGpsTracking' = FALSE
  /\ clockPeriodId' = Null
  /\ clockSessionId' = Null
  /\ stPeriod' = Null
  /\ stSession' = SetActiveClockSessionId(Null)
  /\ tasks' = [tasks EXCEPT ![t].pc = "resolved"]
  /\ UNCHANGED <<srv, workdayId, hasLocationPermission, stWorkday, platform, slots, hist, ident, svc, refs,
                 loc>>
  /\ startTime' = SyncStartTime(clockSessionId' # Null, startTime)

\* ------------------------------------------------------------- endWorkday
\* mutant: the clock_out step is gone
EndWorkdayEntryNoClockOut ==
  IF clockSessionId # Null THEN "ej_fetch"
  ELSE "ew_call"

\* lines 385-391: end the job, else clock out, else end the workday
EndWorkdayEntry ==
  IF clockSessionId # Null THEN "ej_fetch"
  ELSE IF clockPeriodId # Null THEN "ew_co"
  ELSE "ew_call"

CallEndWorkday(t) ==
  /\ Idle(t)
  /\ tasks' = [tasks EXCEPT ![t] =
                 IF workdayId = Null
                   THEN [IdleTask EXCEPT !.op = "endWorkday", !.pc = "resolved"]
                   ELSE NewTask("endWorkday", EndWorkdayEntry)]
  /\ UNCHANGED <<srv, mem, store, platform, slots, hist, ident, svc, refs, loc, startTime>>

\* clock out if still clocked in; an error is only logged
EwClockOut(t) ==
  /\ At(t, "ew_co")
  /\ \E ok \in BOOLEAN :
       /\ IF ok THEN SrvClockOut ELSE UNCHANGED srv
       /\ tasks' = [tasks EXCEPT ![t].pc = "ew_call",
                                 ![t].callFailed = ~ok,
                                 ![t].calls = Logged(t, "clock_out", Null)]
  /\ UNCHANGED <<mem, store, platform, slots, hist, ident, svc, refs, loc, startTime>>

EwCall(t) ==
  /\ At(t, "ew_call")
  /\ \E ok \in BOOLEAN :
       IF ok
         THEN /\ SrvEndWorkday(tasks[t].wd)
              /\ tasks' = [tasks EXCEPT ![t].pc = "ew_stop",
                             ![t].calls = Logged(t, "end_workday", tasks[t].wd)]
         ELSE /\ Reject(t, Logged(t, "end_workday", tasks[t].wd))
              /\ UNCHANGED srv
  /\ UNCHANGED <<mem, store, platform, slots, hist, ident, svc, refs, loc, startTime>>

EwStop(t) ==
  /\ At(t, "ew_stop")
  /\ \E fail \in Failures :
       /\ registered' = StopResult(fail)
       /\ tasks' = [tasks EXCEPT ![t].pc = "ew_clear", ![t].stopFailed = StopResult(fail)]
  /\ UNCHANGED <<srv, mem, store, perm, slots, hist, ident, svc, refs, loc, startTime>>

\* lines 408-418; the three store writes are taken in one step
EwClear(t) ==
  /\ At(t, "ew_clear")
  /\ isGpsTracking' = FALSE
  /\ workdayId' = Null /\ clockPeriodId' = Null /\ clockSessionId' = Null
  /\ stWorkday' = Null /\ stPeriod' = Null /\ stSession' = SetActiveClockSessionId(Null)
  /\ tasks' = [tasks EXCEPT ![t].pc = "resolved"]
  /\ UNCHANGED <<srv, hasLocationPermission, platform, slots, hist, ident, svc, refs, loc>>
  /\ startTime' = SyncStartTime(clockSessionId' # Null, startTime)

\* ------------------------------------------------- background location task
NoBatch == [pc |-> "idle", wd |-> Null, cs |-> Null]

\* mutant: the workday check is gone
BatchAcceptedAlways(wd) == TRUE

\* line 300: a batch is forwarded only under a stored workday id
BatchAccepted(wd) == wd # Null

\* the platform hands a batch of points to the registered task;
\* saveLocationPoints reads the stored workday id and returns when there is none
LocDeliver ==
  /\ registered
  /\ loc.pc = "idle"
  /\ loc' = IF BatchAccepted(stWorkday)
              THEN [pc |-> "read_cs", wd |-> stWorkday, cs |-> Null]
              ELSE [pc |-> "dropped", wd |-> stWorkday, cs |-> Null]
  /\ UNCHANGED <<srv, mem, store, platform, slots, hist, ident, svc, refs, tasks, startTime>>

\* then the stored session id
LocReadSession ==
  /\ loc.pc = "read_cs"
  /\ loc' = [loc EXCEPT !.pc = "send", !.cs = stSession]
  /\ UNCHANGED <<srv, mem, store, platform, slots, hist, ident, svc, refs, tasks, startTime>>

\* one point of the batch goes to append_location_point with loc.wd and
\* loc.cs; the loop goes on while the batch has more points
LocAppend ==
  /\ loc.pc = "send"
  /\ \E more \in BOOLEAN : loc' = IF more THEN loc ELSE NoBatch
  /\ UNCHANGED <<srv, mem, store, platform, slots, hist, ident, svc, refs, tasks, startTime>>

\* the callback of a dropped batch returns
LocReturn ==
  /\ loc.pc = "dropped"
  /\ loc' = NoBatch
  /\ UNCHANGED <<srv, mem, store, platform, slots, hist, ident, svc, refs, tasks, startTime>>

\* ------------------------------------------------------------------ crash
\* The process dies and is launched again: React state and running functions
\* are gone, the store, the backend and the registered task stay; the provider
\* mounts and starts refreshState, which reads the stored session id.
Crash ==
  /\ workdayId' = Null /\ clockPeriodId' = Null /\ clockSessionId' = Null
  /\ isGpsTracking' = FALSE /\ hasLocationPermission' = FALSE
  /\ tasks' = [t \in Slots |-> IF t = 1
                 THEN [IdleTask EXCEPT !.op = "refreshState", !.pc = "rs_wd",
                                       !.ssid = stSession, !.relaunch = TRUE]
                 ELSE IdleTask]
  /\ loc' = [pc |-> "idle", wd |-> Null, cs |-> Null]
  /\ startTime' = FALSE
  /\ UNCHANGED <<srv, store, platform, slots, hist, ident, svc, refs>>

\* ------------------------------------------------------------------- next
\* SjFetch needs a startJob called in a render that holds a clock period id
\* and no workday id.  With one function running at a time no render is like
\* that (refreshState and clockIn set the workday id with the period id,
\* endWorkday clears both), so the step is left to specifications that let
\* two functions overlap.
Next ==
  \/ \E t \in Slots : CallRefreshState(t)
  \/ \E t \in Slots : RsWorkday(t)
  \/ \E t \in Slots : RsPeriod(t)
  \/ \E t \in Slots : RsSession(t)
  \/ \E t \in Slots : RsTracking(t)
  \/ \E t \in Slots : Settle(t)
  \/ \E t \in Slots : CallClockIn(t)
  \/ \E t \in Slots : CiCall(t)
  \/ \E t \in Slots : CiResp(t)
  \/ \E t \in Slots : CiPerm(t)
  \/ \E t \in Slots : CallStartJob(t)
  \/ \E t \in Slots : SjCall(t)
  \/ \E t \in Slots : SjResp(t)
  \/ \E t \in Slots : SjTrack(t)
  \/ \E t \in Slots : CallEndJob(t)
  \/ \E t \in Slots : EjFetch(t)
  \/ \E t \in Slots : EjUpdate(t)
  \/ \E t \in Slots : EjInsert(t)
  \/ \E t \in Slots : EjStop(t)
  \/ \E t \in Slots : CallClockOut(t)
  \/ \E t \in Slots : CoCall(t)
  \/ \E t \in Slots : CoStop(t)
  \/ \E t \in Slots : CoClear(t)
  \/ \E t \in Slots : CallEndWorkday(t)
  \/ \E t \in Slots : EwClockOut(t)
  \/ \E t \in Slots : EwCall(t)
  \/ \E t \in Slots : EwStop(t)
  \/ \E t \in Slots : EwClear(t)
  \/ LocDeliver
  \/ LocReadSession
  \/ LocAppend
  \/ LocReturn

\* one WorkdayProvider, mounted once
Spec == Init /\ [][Next]_vars

\* the same, with the process dying and being launched again at any point
NextCrash == Next \/ Crash

SpecCrash == Init /\ [][NextCrash]_vars

\* ---------------------------------------------------- overlapping functions
\* Nothing in the provider keeps a second function from being called while a
\* first one is suspended at an await: the buttons of the home screen stay
\* enabled (only End Job is disabled, and only by its own handler).  The two
\* specifications below let two functions overlap, each on the part of the
\* state machine its claims are about.

\* A job is active and no function is running: the state startJob leaves
\* behind from a fresh install, with the tracker registered or not.
InitEnding ==
  /\ srvWorkday = 1 /\ srvPeriod = [id |-> 1, wd |-> 1]
  /\ srvEnded = {} /\ srvEntries = [s \in SessionIds |-> 0]
  /\ nextWd = 2 /\ nextCp = 2 /\ nextCs = 2
  /\ workdayId = 1 /\ clockPeriodId = 1 /\ clockSessionId = 1
  /\ registered \in BOOLEAN
  /\ isGpsTracking = registered
  /\ hasLocationPermission = TRUE
  /\ stWorkday = 1 /\ stPeriod = 1 /\ stSession = 1
  /\ perm = "granted"
  /\ slots = Slots
  /\ tasks = [t \in Slots |-> IdleTask]
  /\ loc = NoBatch
  /\ startTime = TRUE
  /\ hist = NoHistory
  /\ svc = <<>>
  /\ refs = NoRefs
  /\ ident = NoIdentity

\* endJob, clockOut and endWorkday, on both slots
NextEnding ==
  \/ \E t \in Slots : CallEndJob(t)
  \/ \E t \in Slots : EjFetch(t)
  \/ \E t \in Slots : EjUpdate(t)
  \/ \E t \in Slots : EjInsert(t)
  \/ \E t \in Slots : EjStop(t)
  \/ \E t \in Slots : CallClockOut(t)
  \/ \E t \in Slots : CoCall(t)
  \/ \E t \in Slots : CoStop(t)
  \/ \E t \in Slots : CoClear(t)
  \/ \E t \in Slots : CallEndWorkday(t)
  \/ \E t \in Slots : EwClockOut(t)
  \/ \E t \in Slots : EwCall(t)
  \/ \E t \in Slots : EwStop(t)
  \/ \E t \in Slots : EwClear(t)
  \/ \E t \in Slots : Settle(t)

SpecEnding == InitEnding /\ [][NextEnding]_vars

\* Nothing is open and no function is running: the state the first
\* refreshState of a fresh install leaves behind.
InitStarting ==
  /\ srvWorkday = Null /\ srvPeriod = NoPeriod
  /\ srvEnded = {} /\ srvEntries = [s \in SessionIds |-> 0]
  /\ nextWd = 1 /\ nextCp = 1 /\ nextCs = 1
  /\ workdayId = Null /\ clockPeriodId = Null /\ clockSessionId = Null
  /\ isGpsTracking = FALSE
  /\ perm \in {"undetermined", "granted"}
  /\ hasLocationPermission = (perm = "granted")
  /\ stWorkday = Null /\ stPeriod = Null /\ stSession = Null
  /\ registered = FALSE
  /\ slots = Slots
  /\ tasks = [t \in Slots |-> IdleTask]
  /\ loc = NoBatch
  /\ startTime = FALSE
  /\ hist = NoHistory
  /\ svc = <<>>
  /\ refs = NoRefs
  /\ ident = NoIdentity

\* clockIn and startJob, on both slots
NextStarting ==
  \/ \E t \in Slots : CallClockIn(t)
  \/ \E t \in Slots : CiCall(t)
  \/ \E t \in Slots : CiResp(t)
  \/ \E t \in Slots : CiPerm(t)
  \/ \E t \in Slots : CallStartJob(t)
  \/ \E t \in Slots : SjCall(t)
  \/ \E t \in Slots : SjResp(t)
  \/ \E t \in Slots : SjTrack(t)
  \/ \E t \in Slots : Settle(t)

SpecStarting == InitStarting /\ [][NextStarting]_vars

\* The provider has just mounted and its refreshState is running (slot 1)
\* while the user clocks in and starts a job (slot 2).
InitMounting ==
  /\ srvWorkday = Null /\ srvPeriod = NoPeriod
  /\ srvEnded = {} /\ srvEntries = [s \in SessionIds |-> 0]
  /\ nextWd = 1 /\ nextCp = 1 /\ nextCs = 1
  /\ workdayId = Null /\ clockPeriodId = Null /\ clockSessionId = Null
  /\ isGpsTracking = FALSE /\ hasLocationPermission = FALSE
  /\ stWorkday = Null /\ stPeriod = Null /\ stSession = Null
  /\ registered = FALSE
  /\ perm \in {"undetermined", "granted"}
  /\ slots = Slots
  /\ tasks = [t \in Slots |-> IF t = 1
                THEN [IdleTask EXCEPT !.op = "refreshState", !.pc = "rs_wd"]
                ELSE IdleTask]
  /\ loc = NoBatch
  /\ startTime = FALSE
  /\ hist = NoHistory
  /\ svc = <<>>
  /\ refs = NoRefs
  /\ ident = NoIdentity

NextMounting ==
  \/ RsWorkday(1)
  \/ RsPeriod(1)
  \/ RsSession(1)
  \/ RsTracking(1)
  \/ CallClockIn(2)
  \/ CiCall(2)
  \/ CiResp(2)
  \/ CiPerm(2)
  \/ CallStartJob(2)
  \/ SjFetch(2)
  \/ SjCall(2)
  \/ SjResp(2)
  \/ SjTrack(2)
  \/ \E t \in Slots : Settle(t)

SpecMounting == InitMounting /\ [][NextMounting]_vars

\* Jobs started with any choice of notes, property, billing category and
\* unit, and ended; one function at a time.
InitJobs ==
  /\ srvWorkday = Null /\ srvPeriod = NoPeriod
  /\ srvEnded = {} /\ srvEntries = [s \in SessionIds |-> 0]
  /\ nextWd = 1 /\ nextCp = 1 /\ nextCs = 1
  /\ workdayId = Null /\ clockPeriodId = Null /\ clockSessionId = Null
  /\ isGpsTracking = FALSE
  /\ perm \in {"undetermined", "granted"}
  /\ hasLocationPermission = (perm = "granted")
  /\ stWorkday = Null /\ stPeriod = Null /\ stSession = Null
  /\ registered = FALSE
  /\ slots = {1}
  /\ tasks = [t \in Slots |-> IdleTask]
  /\ loc = NoBatch
  /\ startTime = FALSE
  /\ hist = NoHistory
  /\ svc = <<>>
  /\ refs = NoRefs
  /\ ident = NoIdentity

NextJobs ==
  \/ \E params \in StartJobParams : StartJobWith(1, params)
  \/ CiCall(1)
  \/ CiResp(1)
  \/ CiPerm(1)
  \/ SjCall(1)
  \/ SjResp(1)
  \/ SjTrack(1)
  \/ CallEndJob(1)
  \/ EjFetch(1)
  \/ EjUpdate(1)
  \/ EjInsert(1)
  \/ EjStop(1)
  \/ Settle(1)

SpecJobs == InitJobs /\ [][NextJobs]_vars

\* ------------------------------------- the provider of src/contexts
\* src/contexts/WorkdayContext.tsx holds a second WorkdayProvider.  Its
\* clockIn makes the same call and stores the same ids, and then, when the
\* foreground permission is granted, starts the tracker itself; its clockOut
\* is the one above without the endJob step.
CiPermTracking(t) ==
  /\ At(t, "ci_perm")
  /\ \E answer \in {"granted", "denied"}, fail \in Failures :
       LET p == RequestedPermission(answer) IN
         /\ perm' = p
         /\ hasLocationPermission' = Foreground(p)
         /\ IF Foreground(p)
              THEN /\ registered' = StartLocationTracking(registered, p, fail).registered
                   /\ isGpsTracking' = StartLocationTracking(registered, p, fail).result
              ELSE UNCHANGED <<registered, isGpsTracking>>
  /\ tasks' = [tasks EXCEPT ![t] = AfterClockIn(tasks[t])]
  /\ UNCHANGED <<srv, workdayId, clockPeriodId, clockSessionId, store,
                 slots, hist, ident, svc, refs, loc, startTime>>

InitContexts ==
  /\ srvWorkday = Null /\ srvPeriod = NoPeriod
  /\ srvEnded = {} /\ srvEntries = [s \in SessionIds |-> 0]
  /\ nextWd = 1 /\ nextCp = 1 /\ nextCs = 1
  /\ workdayId = Null /\ clockPeriodId = Null /\ clockSessionId = Null
  /\ isGpsTracking = FALSE
  /\ perm \in {"undetermined", "granted"}
  /\ hasLocationPermission = (perm = "granted")
  /\ stWorkday = Null /\ stPeriod = Null /\ stSession = Null
  /\ registered = FALSE
  /\ slots = {1}
  /\ tasks = [t \in Slots |-> IdleTask]
  /\ loc = NoBatch
  /\ startTime = FALSE
  /\ hist = NoHistory
  /\ svc = <<>>
  /\ refs = NoRefs
  /\ ident = NoIdentity

\* clockIn and clockOut of that provider, and the location callback
NextContexts ==
  \/ \E t \in Slots : CallClockIn(t)
  \/ \E t \in Slots : CiCall(t)
  \/ \E t \in Slots : CiResp(t)
  \/ \E t \in Slots : CiPermTracking(t)
  \/ \E t \in Slots : CallClockOut(t)
  \/ \E t \in Slots : CoCall(t)
  \/ \E t \in Slots : CoStop(t)
  \/ \E t \in Slots : CoClear(t)
  \/ \E t \in Slots : Settle(t)
  \/ LocDeliver
  \/ LocReadSession
  \/ LocAppend

SpecContexts == InitContexts /\ [][NextContexts]_vars

\* ------------------------------------------------- the time history screen
\* The screen on its own: signed in, no workday function running.
InitHistory ==
  /\ srvWorkday = Null /\ srvPeriod = NoPeriod
  /\ srvEnded = {} /\ srvEntries = [s \in SessionIds |-> 0]
  /\ nextWd = 1 /\ nextCp = 1 /\ nextCs = 1
  /\ workdayId = Null /\ clockPeriodId = Null /\ clockSessionId = Null
  /\ isGpsTracking = FALSE /\ hasLocationPermission = FALSE
  /\ stWorkday = Null /\ stPeriod = Null /\ stSession = Null
  /\ registered = FALSE
  /\ perm = "undetermined"
  /\ slots = {}
  /\ tasks = [t \in Slots |-> IdleTask]
  /\ loc = NoBatch
  /\ startTime = FALSE
  /\ hist = NoHistory
  /\ svc = <<>>
  /\ refs = NoRefs
  /\ ident = NoIdentity

NextHistory ==
  \/ InsertEntry
  \/ BackOffice
  \/ FetchTimeEntries
  \/ HandleUpdate
  \/ HuRemote
  \/ HandleAnimatedDelete
  \/ AdRemote
  \/ HandleDelete
  \/ HdConfirm
  \/ HdRemote
  \/ Refetch
  \/ HistSettle

SpecHistory == InitHistory /\ [][NextHistory]_vars

\* ------------------------------------------------- the location service
\* startLocationTracking and stopLocationTracking on their own: called in any
\* order, each call with the platform answering or throwing, and the
\* permission prompt answered at some point.  svc records each call: the
\* tracker before and after, what failed, whether the platform was called to
\* register or unregister, and what startLocationTracking returned.
InitTracking ==
  /\ srvWorkday = Null /\ srvPeriod = NoPeriod
  /\ srvEnded = {} /\ srvEntries = [s \in SessionIds |-> 0]
  /\ nextWd = 1 /\ nextCp = 1 /\ nextCs = 1
  /\ workdayId = Null /\ clockPeriodId = Null /\ clockSessionId = Null
  /\ isGpsTracking = FALSE /\ hasLocationPermission = FALSE
  /\ stWorkday = Null /\ stPeriod = Null /\ stSession = Null
  /\ registered = FALSE
  /\ perm \in {"undetermined", "granted", "denied"}
  /\ slots = {}
  /\ tasks = [t \in Slots |-> IdleTask]
  /\ loc = NoBatch
  /\ startTime = FALSE
  /\ hist = NoHistory
  /\ svc = <<>>
  /\ refs = NoRefs
  /\ ident = NoIdentity

TrackStart ==
  /\ Len(svc) < MaxCalls
  /\ \E fail \in Failures :
       LET r == StartLocationTracking(registered, perm, fail) IN
         /\ registered' = r.registered
         /\ svc' = Append(svc, [fn |-> "start", fail |-> fail, before |-> registered,
                                after |-> r.registered, call |-> r.call,
                                result |-> r.result])
  /\ UNCHANGED <<srv, mem, store, perm, slots, tasks, loc, startTime, hist, ident, refs>>

TrackStop ==
  /\ Len(svc) < MaxCalls
  /\ \E fail \in Failures :
       LET r == StopLocationTracking(registered, fail) IN
         /\ registered' = r.registered
         /\ svc' = Append(svc, [fn |-> "stop", fail |-> fail, before |-> registered,
                                after |-> r.registered, call |-> r.call])
  /\ UNCHANGED <<srv, mem, store, perm, slots, tasks, loc, startTime, hist, ident, refs>>

\* requestLocationPermissions: the prompt is answered
TrackPermission ==
  /\ perm = "undetermined"
  /\ \E answer \in {"granted", "denied"} : perm' = RequestedPermission(answer)
  /\ UNCHANGED <<srv, mem, store, registered, slots, tasks, loc, startTime, hist, ident, svc, refs>>

NextTracking == TrackStart \/ TrackStop \/ TrackPermission

SpecTracking == InitTracking /\ [][NextTracking]_vars

\* ----------------------------------------------------- identity resolution
\* Any memberships, any employees linked to them or carrying the email; the
\* provider has just mounted.
InitIdentity ==
  /\ srvWorkday = Null /\ srvPeriod = NoPeriod
  /\ srvEnded = {} /\ srvEntries = [s \in SessionIds |-> 0]
  /\ nextWd = 1 /\ nextCp = 1 /\ nextCs = 1
  /\ workdayId = Null /\ clockPeriodId = Null /\ clockSessionId = Null
  /\ isGpsTracking = FALSE /\ hasLocationPermission = FALSE
  /\ stWorkday = Null /\ stPeriod = Null /\ stSession = Null
  /\ registered = FALSE
  /\ perm = "undetermined"
  /\ slots = {}
  /\ tasks = [t \in Slots |-> IdleTask]
  /\ loc = NoBatch
  /\ startTime = FALSE
  /\ hist = NoHistory
  /\ svc = <<>>
  /\ refs = NoRefs
  /\ \E members \in SUBSET MemberIds, linked \in SUBSET MemberIds,
        byEmail \in SUBSET MemberIds, unlinked \in SUBSET MemberIds,
        oldest \in MemberIds \cup {Null}, userEmail \in BOOLEAN :
       /\ linked \subseteq members /\ byEmail \subseteq members
       /\ unlinked \subseteq byEmail
       /\ IF members = {} THEN oldest = Null ELSE oldest \in members
       /\ ident = [NoIdentity EXCEPT
                     !.members = members, !.oldest = oldest, !.linked = linked,
                     !.byEmail = byEmail, !.unlinked = unlinked,
                     !.userEmail = userEmail, !.mounted = TRUE,
                     !.f = [NoLookup EXCEPT !.pc = "fe_members"]]

NextIdentity ==
  \/ FeMembers
  \/ FeByMember
  \/ FeByEmail
  \/ FeBackfill
  \/ IdentSignOut
  \/ IdentSignIn

SpecIdentity == InitIdentity /\ [][NextIdentity]_vars

\* ------------------------------------------------------------- signing out
\* The account signs in on a fresh install: one membership, an employee that
\* carries the account's email and is not linked to the membership yet.  Jobs
\* are started and ended, the user signs out and in again, and the platform
\* hands batches of points to the background task whenever it is registered.
InitSignOut ==
  /\ srvWorkday = Null /\ srvPeriod = NoPeriod
  /\ srvEnded = {} /\ srvEntries = [s \in SessionIds |-> 0]
  /\ nextWd = 1 /\ nextCp = 1 /\ nextCs = 1
  /\ workdayId = Null /\ clockPeriodId = Null /\ clockSessionId = Null
  /\ isGpsTracking = FALSE /\ hasLocationPermission = FALSE
  /\ stWorkday = Null /\ stPeriod = Null /\ stSession = Null
  /\ registered = FALSE
  /\ perm = "granted"
  /\ slots = {}
  /\ tasks = [t \in Slots |-> IdleTask]
  /\ loc = NoBatch
  /\ startTime = FALSE
  /\ hist = NoHistory
  /\ svc = <<>>
  /\ refs = NoRefs
  /\ ident = [NoIdentity EXCEPT
                !.members = {1}, !.oldest = 1, !.byEmail = {1}, !.unlinked = {1},
                !.userEmail = TRUE, !.mounted = TRUE,
                !.f = [NoLookup EXCEPT !.pc = "fe_members"]]

NextSignOut ==
  \/ FeMembers
  \/ FeByMember
  \/ FeByEmail
  \/ FeBackfill
  \/ IdentSignOut
  \/ IdentSignIn
  \/ MountWorkdayProvider
  \/ RsWorkday(1)
  \/ RsPeriod(1)
  \/ RsSession(1)
  \/ RsTracking(1)
  \/ CallStartJob(1)
  \/ CiCall(1)
  \/ CiResp(1)
  \/ CiPerm(1)
  \/ SjCall(1)
  \/ SjResp(1)
  \/ SjTrack(1)
  \/ CallEndJob(1)
  \/ EjFetch(1)
  \/ EjUpdate(1)
  \/ EjInsert(1)
  \/ EjStop(1)
  \/ Settle(1)
  \/ LocDeliver
  \/ LocReadSession
  \/ LocAppend
  \/ LocReturn

SpecSignOut == InitSignOut /\ [][NextSignOut]_vars

\* ================================================================ claims
Quiescent == \A t \in Slots : tasks[t].pc = "idle"

Finished(t, op) == tasks[t].op = op /\ tasks[t].pc \in {"resolved", "rejected"}

\* C1 (as claimed): whenever no function of the provider is running, a held
\* clock session id implies a held clock period id, and a held clock period
\* id implies a held workday id.
C1_Nesting ==
  Quiescent =>
    /\ (clockSessionId # Null => clockPeriodId # Null)
    /\ (clockPeriodId # Null => workdayId # Null)

\* C2 (as claimed): a startJob called while no clock period id is held has,
\* when it is over, made exactly the calls clock_in, start_clock_session, the
\* second with the workday id the first returned.
C2_Original ==
  \A t \in Slots :
    Finished(t, "startJob") /\ tasks[t].cp = Null =>
      tasks[t].calls = <<Call("clock_in", Null),
                         Call("start_clock_session", tasks[t].rwd)>>

\* C2 (amended): such a startJob makes exactly one clock_in call; when that
\* call succeeds it makes exactly one start_clock_session call after it, with
\* the workday id clock_in returned, and when it fails it rejects having made
\* no start_clock_session call.
C2_ClockInThenStart ==
  \A t \in Slots :
    Finished(t, "startJob") /\ tasks[t].cp = Null =>
      IF tasks[t].rwd # Null
        THEN tasks[t].calls = <<Call("clock_in", Null),
                                Call("start_clock_session", tasks[t].rwd)>>
        ELSE /\ tasks[t].calls = <<Call("clock_in", Null)>>
             /\ tasks[t].pc = "rejected"

C2_Witness ==
  \E t \in Slots :
    /\ tasks[t].op = "startJob" /\ tasks[t].pc = "resolved"
    /\ tasks[t].cp = Null /\ tasks[t].wd # Null
    /\ tasks[t].rwd # Null

\* C3 (as claimed): every point handed to append_location_point carries a
\* clock session id, and that session's end_time is not yet set.
C3_PointsOnlyInOpenSession ==
  loc.pc = "send" => loc.cs # Null /\ loc.cs \notin srvEnded

\* C4: no point is handed to append_location_point with a null workday id,
\* and a batch observed while the stored workday id is absent never gets as
\* far as reading the session id or sending a point.
C4_NoPointWithoutWorkday ==
  /\ [](loc.pc \in {"read_cs", "send"} => loc.wd # Null)
  /\ [][loc.pc = "idle" /\ stWorkday = Null => loc'.pc \in {"idle", "dropped"}]_vars
  /\ [][loc.pc = "dropped" => loc'.pc \in {"dropped", "idle"}]_vars

C4_Witness == loc.pc = "dropped" /\ stSession # Null

C6_TrackingAfterStartJob ==
  \A t \in Slots :
    /\ tasks[t].op = "startJob" /\ tasks[t].pc = "resolved"
    /\ perm = "granted" /\ ~tasks[t].trackFailed
    => registered

\* C7: once refreshState has looked up a stored session id whose row has its
\* end_time set, the session id is null in memory, removed from the store,
\* and the home screen's timer start is unset.
C7_ClosedSessionCleared ==
  \A t \in Slots :
    /\ tasks[t].op = "refreshState" /\ tasks[t].pc \in {"rs_gps", "resolved"}
    /\ tasks[t].ssid # Null /\ tasks[t].ssid \in srvEnded
    => clockSessionId = Null /\ stSession = Null /\ ~startTime

C7_Witness ==
  \E t \in Slots :
    /\ tasks[t].op = "refreshState" /\ tasks[t].pc = "resolved" /\ tasks[t].relaunch
    /\ tasks[t].ssid # Null /\ tasks[t].ssid \in srvEnded

\* C8 (as claimed): when refreshState is over, the workday id and the clock
\* period id, in memory and in the store, are the backend's active workday
\* and active clock period (null when it has none).
C8_RefreshMatchesServer ==
  \A t \in Slots :
    tasks[t].op = "refreshState" /\ tasks[t].pc = "resolved" =>
      /\ workdayId = srvWorkday /\ stWorkday = srvWorkday
      /\ clockPeriodId = srvPeriod.id /\ stPeriod = srvPeriod.id

\* C9 (as claimed): when the refreshState of a launch that follows a crash is
\* over and all its reads succeeded, each active id is held exactly when the
\* backend has the open workday, clock period or clock session.
C9_CrashRecovery ==
  \A t \in Slots :
    /\ tasks[t].op = "refreshState" /\ tasks[t].pc = "resolved"
    /\ tasks[t].relaunch /\ tasks[t].readsOk
    => /\ (workdayId # Null <=> srvWorkday # Null)
       /\ (clockPeriodId # Null <=> srvPeriod.id # Null)
       /\ (clockSessionId # Null <=> SrvOpenSessions # {})

\* C10: endJob called while no session id is held resolves at once, having
\* made no remote call and changed nothing in memory, in the store, on the
\* backend or in the tracker; when it has returned the state is the one
\* before the call, so any number of such calls is the same as none.
C10_EndJobNoop ==
  /\ [][\A t \in Slots :
          tasks[t].pc = "idle" /\ tasks'[t].op = "endJob" /\ clockSessionId = Null =>
            /\ tasks'[t] = [IdleTask EXCEPT !.op = "endJob", !.pc = "resolved"]
            /\ UNCHANGED <<srv, mem, store, platform, loc, startTime>>]_vars
  /\ [][\A t \in Slots :
          Finished(t, "endJob") /\ tasks[t].calls = <<>> /\ tasks'[t] # tasks[t] =>
            /\ tasks'[t] = IdleTask
            /\ UNCHANGED <<srv, mem, store, platform, loc, startTime>>]_vars

C10_Witness ==
  \E t \in Slots :
    /\ tasks[t].op = "endJob" /\ tasks[t].pc = "resolved" /\ tasks[t].calls = <<>>
    /\ clockSessionId = Null /\ workdayId # Null

InsertsIssued(t, s) ==
  Cardinality({i \in DOMAIN tasks[t].calls :
                 tasks[t].calls[i] = Call("insert_time_entry", s)})

\* C12 (as claimed): the functions of the provider, overlapping or not, issue
\* at most one time_entries insert for a clock session id, and the backend
\* holds at most one time entry for it.
C12_OneInsertPerSession ==
  \A s \in SessionIds :
    /\ InsertsIssued(1, s) + InsertsIssued(2, s) <= 1
    /\ srvEntries[s] <= 1

\* C13 (as claimed): start_clock_session is called only while the provider
\* holds no session id and no other startJob has a session being created
\* (its call made, the id not yet stored).
C13_NoStartWhileSessionHeld ==
  [][\A t \in Slots :
       tasks[t].pc = "sj_call" /\ tasks'[t].pc # "sj_call" =>
         /\ clockSessionId = Null
         /\ \A u \in Slots \ {t} : tasks[u].pc # "sj_resp"]_vars

\* the calls of an endJob that got as far as the insert
EndJobCalls(s) ==
  <<Call("select_clock_session", s), Call("update_clock_session", s),
    Call("insert_time_entry", s)>>

IsPrefix(p, q) == Len(p) <= Len(q) /\ p = SubSeq(q, 1, Len(p))

\* C14 (as claimed): a clockOut called with an active job issues clock_out
\* only after the three calls of a completed endJob; when it has resolved,
\* the clock period id and the session id are null in memory and in the
\* store, the tracking flag is off and the tracker unregistered (unless the
\* platform refused), and the workday id is the non-null one it was called
\* with.
C14_ClockOutEndsJobFirst ==
  \A t \in Slots :
    Finished(t, "clockOut") /\ tasks[t].cs # Null =>
      /\ \A i \in DOMAIN tasks[t].calls :
           tasks[t].calls[i].rpc = "clock_out" =>
             /\ i = Len(EndJobCalls(tasks[t].cs)) + 1
             /\ IsPrefix(EndJobCalls(tasks[t].cs), tasks[t].calls)
      /\ tasks[t].pc = "resolved" =>
           /\ clockPeriodId = Null /\ stPeriod = Null
           /\ clockSessionId = Null /\ stSession = Null
           /\ ~isGpsTracking /\ (registered => tasks[t].stopFailed)
           /\ workdayId = tasks[t].wd /\ workdayId # Null

\* the calls endWorkday makes when none fails, for the state it was called in
EndWorkdayCalls(tk) ==
  (IF tk.cs # Null THEN EndJobCalls(tk.cs) ELSE <<>>)
    \o (IF tk.cp # Null THEN <<Call("clock_out", Null)>> ELSE <<>>)
    \o <<Call("end_workday", tk.wd)>>

C18_FailuresRejectWithoutRetry ==
  \A t \in Slots :
    /\ tasks[t].pc \in {"resolved", "rejected"}
    /\ tasks[t].op \in {"clockIn", "startJob", "endJob", "clockOut", "endWorkday"}
    /\ tasks[t].callFailed
    => /\ tasks[t].pc = "rejected"
       /\ \A i, j \in DOMAIN tasks[t].calls :
            i # j => tasks[t].calls[i] # tasks[t].calls[j]

\* C16 (as claimed): no step of a clockIn registers the background location
\* task, and a clockIn that has resolved left the workday id and the clock
\* period id clock_in returned in memory and in the store.
C16_ClockInLeavesTrackerAlone ==
  /\ [][\A t \in Slots :
          tasks[t].op = "clockIn" /\ tasks'[t] # tasks[t] =>
            (registered' => registered)]_vars
  /\ [](\A t \in Slots :
          tasks[t].op = "clockIn" /\ tasks[t].pc = "resolved" =>
            /\ workdayId = tasks[t].rwd /\ stWorkday = tasks[t].rwd
            /\ clockPeriodId = tasks[t].rcp /\ stPeriod = tasks[t].rcp)

\* C17 (as claimed, for calls made from a render that showed no clock
\* period): clock_in is called only while the provider holds no clock period
\* id.
C17_ClockInOnlyWhenClockedOut ==
  [][\A t \in Slots :
       /\ tasks[t].pc = "ci_call" /\ tasks'[t].pc # "ci_call"
       /\ tasks[t].cp = Null
       => clockPeriodId = Null]_vars

\* C19: a handleUpdate, handleDelete or handleAnimatedDelete called for a
\* list entry that is locked or invoiced changes neither the list nor the
\* table and is over at once, handleUpdate rejected and the two deletes
\* returned; a handler that ended that way made no remote call.
C19_LockedEntriesRefused ==
  /\ [][\A id \in EntryIds :
          /\ hist.h.pc = "idle" /\ hist'.h.pc # "idle" /\ hist'.h.id = id
          /\ hist.list[id].locked \/ hist.list[id].status = "invoiced"
          => /\ hist'.list = hist.list /\ hist'.rows = hist.rows
             /\ hist'.h.refused /\ hist'.h.remote = 0
             /\ hist'.h.pc = IF hist'.h.op = "handleUpdate" THEN "rejected"
                              ELSE "resolved"]_vars
  /\ [][hist.h.refused /\ hist'.h # hist.h =>
          hist'.h = NoHandler /\ hist'.list = hist.list /\ hist'.rows = hist.rows]_vars

C19_Witness ==
  /\ hist.h.refused /\ hist.h.op = "handleUpdate" /\ hist.h.pc = "rejected"
  /\ hist.list[hist.h.id].status = "invoiced" /\ ~hist.list[hist.h.id].locked

\* C20 (as claimed): the duration_minutes the client writes into a row, with
\* endJob's insert or with a handleUpdate that changes a time, is
\* floor((end - start) / 60000) of the start and end the row then holds.
C20_DurationMatchesRow ==
  [][\A e \in EntryIds :
       \/ hist.rows[e].state = "none" /\ hist'.rows[e].state = "live"
       \/ /\ hist.h.pc = "hu_remote" /\ hist.h.id = e /\ hist'.h.pc = "resolved"
          /\ hist.h.db.dur # Undefined /\ hist.rows[e].state = "live"
       => hist'.rows[e].dur =
            DurationMinutes(hist'.rows[e].start, hist'.rows[e].end)]_vars

\* C21: handleUpdate and handleAnimatedDelete change the list before any
\* remote call is made; the one remote call either succeeds or is followed by
\* a fetchTimeEntries; and when that fetch succeeds the list is the list of
\* the table's rows, the optimistic change gone.
ServerList == [e \in EntryIds |-> Fetched(hist.rows[e])]

Optimistic(op) == op \in {"handleUpdate", "handleAnimatedDelete"}

C21_ServerWinsOnRefetch ==
  [][Optimistic(hist'.h.op) =>
       /\ hist.h.pc = "idle" /\ hist'.h.pc = "hu_remote" =>
            /\ hist'.h.remote = 0
            /\ hist'.list[hist'.h.id].start =
                 Merge(hist.list[hist'.h.id].start, hist'.h.db.start)
            /\ hist'.list[hist'.h.id].end =
                 Merge(hist.list[hist'.h.id].end, hist'.h.db.end)
       /\ hist.h.pc = "idle" /\ hist'.h.pc = "ad_remote" =>
            hist'.h.remote = 0 /\ ~hist'.list[hist'.h.id].shown
       /\ hist.h.pc \in {"hu_remote", "ad_remote"} /\ hist'.h # hist.h =>
            /\ hist'.h.remote = 1 /\ hist'.list = hist.list
            /\ \/ hist'.h.pc = "resolved" /\ hist'.rows[hist.h.id].state # "live"
               \/ hist'.h.pc = "resolved" /\ hist.h.op = "handleUpdate"
                    /\ hist'.rows[hist.h.id] = Updated(hist.rows[hist.h.id], hist.h.db)
               \/ hist'.h.pc = "refetch" /\ hist'.rows = hist.rows
       /\ hist.h.pc = "refetch" /\ hist'.h # hist.h /\ hist'.h.refetched =>
            hist'.list = [e \in EntryIds |-> Fetched(hist'.rows[e])]]_vars

\* an optimistic removal that failed remotely and was fetched back
C21_Witness ==
  /\ hist.h.op = "handleAnimatedDelete" /\ hist.h.refetched
  /\ hist.h.remote = 1 /\ hist.list[hist.h.id].shown /\ hist.list = ServerList
\* C22: while the foreground permission is denied the tracker is not
\* registered and hasLocationPermission and isGpsTracking are false; a startJob
\* whose prompt is answered with a denial goes on to start_clock_session, and a
\* startJob whose session was created resolves with the workday, clock period
\* and session ids held in memory and in the store.
IdsStored(tk) ==
  /\ workdayId = tk.awd /\ stWorkday = tk.awd /\ tk.awd # Null
  /\ clockPeriodId # Null /\ stPeriod = clockPeriodId
  /\ clockSessionId = tk.rcs /\ stSession = tk.rcs /\ tk.rcs # Null

C22_PermissionDenied ==
  /\ [](perm = "denied" => ~registered /\ ~isGpsTracking /\ ~hasLocationPermission)
  /\ [](\A t \in Slots :
          tasks[t].op = "startJob" /\ tasks[t].pc = "resolved" /\ perm = "denied"
            => IdsStored(tasks[t]))
  /\ [][\A t \in Slots :
          tasks[t].op = "startJob" /\ perm' = "denied" /\ tasks'[t] # tasks[t] =>
            /\ tasks[t].pc = "ci_perm" => tasks'[t].pc = "sj_call"
            /\ tasks[t].pc = "sj_resp" => tasks'[t].pc = "resolved"]_vars

\* startJob from Idle, the prompt of its clockIn denied, resolved
C22_Witness ==
  \E t \in Slots :
    /\ tasks[t].op = "startJob" /\ tasks[t].pc = "resolved" /\ perm = "denied"
    /\ Len(tasks[t].calls) = 2 /\ tasks[t].calls[1].rpc = "clock_in"
    /\ clockSessionId # Null /\ ~registered
\* C23 (as claimed): startLocationTracking on a registered tracker does not
\* call the platform to register it and returns true; stopLocationTracking on
\* an unregistered tracker does not call the platform to unregister it and
\* leaves it unregistered; a second start after a start that went through, and
\* a second stop after a stop that went through, leave the tracker as it was.
WentThrough(call) ==
  IF call.fn = "start" THEN call.result ELSE call.fail = "none"

Repeated(i, fn) ==
  /\ i > 1 /\ svc[i].fn = fn /\ svc[i - 1].fn = fn /\ WentThrough(svc[i - 1])

NoEffect(i) == ~svc[i].call /\ svc[i].after = svc[i].before

C23_StartStopIdempotent ==
  \A i \in 1..Len(svc) :
    /\ svc[i].fn = "start" /\ svc[i].before => NoEffect(i) /\ svc[i].result
    /\ svc[i].fn = "stop" /\ ~svc[i].before => NoEffect(i)
    /\ Repeated(i, "start") \/ Repeated(i, "stop") => svc[i].after = svc[i].before

\* C23 (amended): the same, with true returned by startLocationTracking on a
\* registered tracker exactly when the platform answered the question whether
\* the tracker is registered; when that query throws, false is returned.
C23_IdempotentWhenPlatformAnswers ==
  \A i \in 1..Len(svc) :
    /\ svc[i].fn = "start" /\ svc[i].before =>
         NoEffect(i) /\ svc[i].result = (svc[i].fail # "query")
    /\ svc[i].fn = "stop" /\ ~svc[i].before => NoEffect(i)
    /\ Repeated(i, "start") \/ Repeated(i, "stop") => svc[i].after = svc[i].before

\* start; start on a granted permission, then a stop; the second start
\* returned true
C23_Witness ==
  /\ Len(svc) = 3
  /\ svc[1].fn = "start" /\ svc[1].call /\ svc[1].after
  /\ svc[2].fn = "start" /\ svc[2].before /\ svc[2].result
  /\ svc[3].fn = "stop" /\ svc[3].call /\ ~svc[3].after
\* C24 (as claimed): a startJob called in a render that holds a clock period
\* id and no workday id makes no clock_in call; its first call is
\* get_active_clock_period; when a period comes back its workday id is set in
\* memory and in the store and is the one start_clock_session is called with;
\* and it rejects before start_clock_session only when the backend has no
\* active clock period.
Recovering(tk) == tk.op = "startJob" /\ tk.cp # Null /\ tk.wd = Null

RecoversWorkday ==
  /\ \A t \in Slots : Recovering(tasks[t]) =>
       \A i \in 1..Len(tasks[t].calls) :
         /\ tasks[t].calls[i].rpc # "clock_in"
         /\ i = 1 => tasks[t].calls[i].rpc = "get_active_clock_period"
         /\ tasks[t].calls[i].rpc = "start_clock_session" =>
              tasks[t].calls[i].arg = tasks[t].awd /\ tasks[t].awd # Null
  /\ \A t \in Slots : Recovering(tasks[t]) /\ tasks[t].pc = "sj_fetch" =>
       \/ /\ tasks'[t].pc = "sj_call" /\ srvPeriod.id # Null
          /\ tasks'[t].awd = srvPeriod.wd
          /\ workdayId' = srvPeriod.wd /\ stWorkday' = srvPeriod.wd
       \/ /\ tasks'[t].pc = "rejected" /\ Len(tasks'[t].calls) = 1
          /\ workdayId' = workdayId /\ stWorkday' = stWorkday
       \/ tasks'[t] = tasks[t]

C24_RecoveryFailsOnlyWithoutPeriod ==
  [][/\ RecoversWorkday
     /\ \A t \in Slots :
          Recovering(tasks[t]) /\ tasks[t].pc = "sj_fetch" /\ tasks'[t].pc = "rejected"
            => srvPeriod.id = Null]_vars

\* C24 (amended): the same, except that startJob rejects before
\* start_clock_session whenever get_active_clock_period brings back no row:
\* when the backend has no active clock period, and also when the call fails
\* while a period is open.
C24_RecoversWorkdayId == [][RecoversWorkday]_vars

\* the workday id was recovered and the session started with it
C24_Witness ==
  \E t \in Slots :
    /\ Recovering(tasks[t]) /\ tasks[t].pc = "resolved"
    /\ Len(tasks[t].calls) = 2 /\ tasks[t].calls[2].rpc = "start_clock_session"
    /\ workdayId = tasks[t].awd /\ stWorkday = tasks[t].awd
\* C25: a startJob called with notes and nothing else passes the notes and
\* null for property, billing category and unit to start_clock_session; the
\* endJob of the session it created, once the row is read and its end_time
\* stamped, makes the time_entries insert, with null property and null
\* billing category; and the entry the backend then holds has them null.
NullReferences(r) == r.property = Null /\ r.billing = Null /\ r.unit = Null

Called(tk, rpc) == \E i \in 1..Len(tk.calls) : tk.calls[i].rpc = rpc

C25_NotesOnlyJob ==
  /\ \A t \in Slots :
       tasks[t].op = "startJob" /\ OnlyNotes(tasks[t].params)
         /\ Called(tasks[t], "start_clock_session")
         => NullReferences(tasks[t].sent) /\ tasks[t].sent.notes = Given
  /\ \A t \in Slots :
       tasks[t].op = "endJob" /\ tasks[t].cs # Null /\ OnlyNotes(refs.params[tasks[t].cs])
         => /\ Called(tasks[t], "update_clock_session") /\ tasks[t].pc # "rejected"
               => tasks[t].pc = "ej_insert" \/ Called(tasks[t], "insert_time_entry")
            /\ Called(tasks[t], "insert_time_entry")
               => NullReferences(tasks[t].entry) /\ tasks[t].entry.notes = Given
  /\ \A s \in SessionIds :
       OnlyNotes(refs.params[s]) /\ srvEntries[s] > 0
         => NullReferences(refs.entries[s]) /\ refs.entries[s].notes = Given

\* a job started with notes only has been ended and its entry inserted
C25_Witness ==
  \E t \in Slots :
    /\ tasks[t].op = "endJob" /\ tasks[t].pc = "resolved" /\ tasks[t].cs # Null
    /\ OnlyNotes(refs.params[tasks[t].cs]) /\ srvEntries[tasks[t].cs] = 1
    /\ ~tasks[t].insertFailed

\* the lookup has finished: setLoading(false) in the finally block
LookupFinished == ident.mounted /\ ~ident.loading

\* a finished failure stays as it is while the provider is mounted
NoRetry ==
  (LookupFinished /\ ident.error /\ ident'.mounted)
     => (ident'.f.calls = ident.f.calls /\ ident'.error /\ ident'.employee = Null)

\* C26: once fetchEmployee has finished, either an employee is set and error
\* is false, or the employee is null and error is true; WorkdayProvider is
\* rendered only in the first case; and after a failure the provider makes no
\* further lookup for as long as it is mounted for the account.
C26_IdentityOutcome ==
  /\ [](LookupFinished => \/ (ident.employee # Null /\ ~ident.error)
                    \/ (ident.employee = Null /\ ident.error))
  /\ [](Rendered = "WorkdayProvider" => (LookupFinished /\ ident.employee # Null /\ ~ident.error))
  /\ [][NoRetry]_vars

\* the lookup failed at its third call and the failure screen is shown
C26_Witness ==
  /\ Rendered = "no employee"
  /\ ident.employee = Null /\ ident.error
  /\ Len(ident.f.calls) = 3

Calls == ident.f.calls

\* C27: the first call asks for the memberships and no later one does; with
\* no membership the lookup fails after that one call; the employee is looked
\* up by the oldest membership; the lookup by organization and email follows
\* only a lookup by membership that found nothing; the backfill follows only
\* a lookup by email that found an employee, and whether it succeeds or not
\* the lookup ends with that employee set.
C27_IdentityOrder ==
  /\ \A i \in 1..Len(Calls) : (Calls[i].rpc = "organization_member") <=> (i = 1)
  /\ (Len(Calls) >= 1 /\ ~Calls[1].found)
        => (Len(Calls) = 1 /\ LookupFinished /\ ident.error /\ ident.employee = Null)
  /\ \A i \in 1..Len(Calls) :
        /\ Calls[i].rpc = "employee_by_member"
              => (i = 2 /\ Calls[1].found /\ Calls[i].arg = ident.oldest)
        /\ Calls[i].rpc = "employee_by_email"
              => (i = 3 /\ Calls[2].rpc = "employee_by_member" /\ ~Calls[2].found
                  /\ Calls[i].arg = ident.oldest)
        /\ Calls[i].rpc = "update_employee"
              => (/\ i = 4 /\ Calls[3].rpc = "employee_by_email" /\ Calls[3].found
                  /\ Calls[i].arg = EmailEmployee(ident.oldest)
                  /\ LookupFinished /\ ~ident.error
                  /\ ident.employee = EmailEmployee(ident.oldest))

\* with two memberships, the employee was found by email and the backfill
\* failed
C27_Witness ==
  /\ Cardinality(ident.members) = 2
  /\ Len(Calls) = 4
  /\ Calls[4].rpc = "update_employee" /\ ~Calls[4].found
  /\ Rendered = "WorkdayProvider"

\* the three ids of the provider, and the three stored under the active-id keys
HeldIds == <<workdayId, clockPeriodId, clockSessionId>>
StoredIds == <<stWorkday, stPeriod, stSession>>

\* C28: whenever no function of the provider is running (the refreshState of
\* the mount included), the ids held in memory are the ids in the store.
C28_MemoryAgreesWithStore == Quiescent => HeldIds = StoredIds

\* a job was started and ended and the user clocked out: the workday is the
\* only id left, in memory and in the store
C28_Witness ==
  /\ Quiescent
  /\ srvEnded # {}
  /\ workdayId # Null /\ clockPeriodId = Null /\ clockSessionId = Null
  /\ HeldIds = StoredIds

\* C29 (as claimed): whenever no function of the provider is running,
\* isGpsTracking is true exactly when the background location task is
\* registered.
C29_FlagReflectsTracker == Quiescent => (isGpsTracking <=> registered)

\* the account is signed out: the login screen is shown
SignedOut == ~ident.mounted

\* the background task takes up a batch of points to forward
BatchForwarded == loc.pc = "idle" /\ loc'.pc = "read_cs"

\* C30 (as claimed): while the account is signed out the background location
\* task is not registered, and no batch of points handed to it is forwarded
\* to the backend.
C30_SignOutEndsTracking ==
  /\ [](SignedOut => ~registered)
  /\ [][SignedOut => ~BatchForwarded]_vars

====
